---- MODULE Spec2Model ----
(***************************************************************************)
(* Model of the reporter command line tool (main.go and the date range     *)
(* file): credential resolution, target resolution, author normalization,  *)
(* the date ranges, the three commands (status, report, contrib) and the   *)
(* contributors statistics map.                                            *)
(*                                                                         *)
(* Strings are sequences of one-character strings.  Instants are integers  *)
(* (ticks); the zero time.Time is tick 0.  The GitHub client is the        *)
(* environment: every call it answers is one nondeterministic choice of a  *)
(* response (a value or an error), and the elements of a returned list are *)
(* chosen as the loop reads them.                                          *)
(***************************************************************************)
EXTENDS Integers, Sequences, FiniteSets, TLC

VARIABLES
    app,        \* the command line: command, source, flags
    env,        \* the process environment: GITHUB_TOKEN, HOME, the token file, the clock
    pc,         \* position of the running command
    tkn,        \* token resolved by setup
    err,        \* error the command returned (NoErr while none)
    calls,      \* GitHub client calls made so far: their number, and the last with its answer
    out,        \* lines printed so far, counted by kind
    rng,        \* DateRange of the command
    repoList,   \* repositories resolved by repos()
    author,     \* normalized author filter
    ri,         \* index of the repository whose pull requests are being read
    left,       \* items of the current list not yet read by the loop
    pr,         \* loop variable: the pull request last read
    more,       \* reviews or issues of the current list not yet read by the loop
    reviewers,  \* key set of the reviewers map of the current pull request
    empty,      \* the local flag `empty` of cmdStat and cmdRep
    stats,      \* usersStats map of cmdContribs
    reviewed,   \* history: the users seen with a counting review on the current pull request
    qualified,  \* history: per user, the pull requests done so far that the user reviewed
    probe,      \* instant handed to DateRange.Include
    included    \* what DateRange.Include returned

vars == <<app, env, pc, tkn, err, calls, out, rng, repoList, author, ri, left,
          pr, more, reviewers, empty, stats, reviewed, qualified, probe, included>>

\* the absent value of each optional type
NoErr == [kind |-> "none"]
NoTime == -1
NoFile == [exists |-> FALSE]
NoRange == [kind |-> "none"]
NoCall == [op |-> "none"]
NoUser == [present |-> FALSE]

----------------------------------------------------------------------------
(* Bounds of the model *)

MaxTokLen == 2      \* longest token string
MaxSrcLen == 4      \* longest source string handed to repos()
MaxAuthorLen == 3   \* longest raw --author value
MaxTime == 30       \* latest instant, in ticks
TicksPerDay == 2    \* clock resolution
MaxRepos == 2       \* longest repository listing
MaxPRs == 2         \* longest pull request listing of one repository
MaxRevs == 2        \* longest review listing of one pull request
MaxTickets == 1     \* longest organization issue listing
MaxCount == 3       \* cap of one usersStats counter when driven directly

DaysPerWeek == 7

----------------------------------------------------------------------------
(* Strings *)

RECURSIVE StringsUpTo(_, _)
StringsUpTo(alphabet, n) ==
    IF n = 0 THEN {<<>>}
    ELSE LET shorter == StringsUpTo(alphabet, n - 1)
         IN  shorter \cup {Append(s, c) : s \in shorter, c \in alphabet}

\* strings.ToLower, on the letters the model uses
ToLowerCh(c) ==
    CASE c = "A" -> "a"
      [] c = "B" -> "b"
      [] c = "E" -> "e"
      [] c = "M" -> "m"
      [] OTHER -> c

ToLower(s) == [k \in 1..Len(s) |-> ToLowerCh(s[k])]

\* strings.HasPrefix
HasPrefix(s, p) == Len(s) >= Len(p) /\ SubSeq(s, 1, Len(p)) = p

\* strings.Split(s, sep) for a one-character separator
RECURSIVE Split(_, _)
Split(s, sep) ==
    IF \A k \in 1..Len(s) : s[k] # sep THEN <<s>>
    ELSE LET k == CHOOSE j \in 1..Len(s) :
                      s[j] = sep /\ \A h \in 1..(j - 1) : s[h] # sep
         IN  <<SubSeq(s, 1, k - 1)>> \o Split(SubSeq(s, k + 1, Len(s)), sep)

dependabot == <<"d", "e", "p", "e", "n", "d", "a", "b", "o", "t">>
me == <<"m", "e">>

----------------------------------------------------------------------------
(* Date ranges *)

Week == DaysPerWeek * TicksPerDay
ZeroTime == 0
Times == 0..MaxTime

\* time.Time.Date(): the calendar day of an instant
Date(t) == t \div TicksPerDay

\* buggy variant: the bound of the week is included
WeeklyIncludeInclusive(r, t) ==
    IF t = NoTime THEN FALSE ELSE r.t - Week <= t

\* WeeklyRange.Include
WeeklyInclude(r, t) ==
    IF t = NoTime THEN FALSE ELSE r.t - Week < t

\* DailyRange.Include
DailyInclude(r, t) ==
    IF t = NoTime THEN FALSE ELSE Date(r.t) = Date(t)

\* DateRange.Include, dispatched on the range's type
Include(r, t) ==
    IF r.kind = "weekly" THEN WeeklyInclude(r, t) ELSE DailyInclude(r, t)

\* ParseRange: the range, or the error
ParseRange(name, now) ==
    IF name = "daily" THEN [range |-> [kind |-> "daily", t |-> now], err |-> NoErr]
    ELSE IF name = "weekly" THEN [range |-> [kind |-> "weekly", t |-> now], err |-> NoErr]
    ELSE [range |-> NoRange, err |-> [kind |-> "UnknownPeriod", name |-> name]]

----------------------------------------------------------------------------
(* Credential resolution *)

TokenFileName == "/.config/reporter/github_token.txt"

\* token(app): the flag, then GITHUB_TOKEN, then the file under HOME;
\* e.tokenFile is what ioutil.ReadFile gives for that path (NoFile: it fails)
token(a, e) ==
    IF a.token # <<>> THEN [token |-> a.token, err |-> NoErr]
    ELSE IF e.GITHUB_TOKEN # <<>> THEN [token |-> e.GITHUB_TOKEN, err |-> NoErr]
    ELSE IF e.tokenFile.exists THEN [token |-> e.tokenFile.data, err |-> NoErr]
    ELSE [token |-> <<>>,
          err |-> [kind |-> "MissingCredential", file |-> <<e.HOME, TokenFileName>>]]

----------------------------------------------------------------------------
(* The GitHub client *)

UpstreamErrors == {[kind |-> "Upstream", id |-> 1], [kind |-> "Upstream", id |-> 2]}

Failures == {[err |-> e] : e \in UpstreamErrors}

NoCalls == [n |-> 0, last |-> NoCall]

\* the call log after one more call: the call and what the client answered
Called(c, op, resp) == [n |-> c.n + 1, last |-> [op |-> op, resp |-> resp]]

\* the call log after a listing call, of which it keeps the error
CalledList(c, op, resp) == Called(c, op, [err |-> resp.err])

----------------------------------------------------------------------------
(* Target resolution *)

Slash == "/"

\* the client call repos(src) makes, NoCall when it makes none
reposCall(src) ==
    LET parts == Split(src, Slash)
    IN  IF Len(parts) = 1 THEN [op |-> "ListByOrg", owner |-> parts[1]]
        ELSE IF Len(parts) = 2
             THEN [op |-> "Get", owner |-> parts[1], name |-> parts[2]]
             ELSE NoCall

\* what the client may answer to that call: a listing of names of the
\* organization's repositories, the repository asked for, or an error
reposResponses(src, listings) ==
    LET c == reposCall(src)
    IN  IF c = NoCall THEN {[err |-> NoErr]}
        ELSE IF c.op = "ListByOrg"
             THEN {[val |-> [k \in 1..Len(l) |-> [owner |-> c.owner, name |-> l[k]]],
                    err |-> NoErr] : l \in listings} \cup Failures
             ELSE {[val |-> [owner |-> c.owner, name |-> c.name], err |-> NoErr]}
                  \cup Failures

\* buggy variant: a longer source string is read as owner/name
reposLenient(src, resp, c) ==
    LET parts == Split(src, Slash)
    IN  IF Len(parts) = 1
        THEN [repos |-> IF resp.err = NoErr THEN resp.val ELSE <<>>, err |-> resp.err,
              calls |-> Called(c, "ListByOrg", resp)]
        ELSE IF resp.err # NoErr
             THEN [repos |-> <<>>, err |-> resp.err, calls |-> Called(c, "Get", resp)]
             ELSE [repos |-> <<[owner |-> parts[1], name |-> parts[2]]>>, err |-> NoErr,
                   calls |-> Called(c, "Get", resp)]

\* repos(src), given the call log and the client's answer to the call it makes
repos(src, resp, c) ==
    LET parts == Split(src, Slash)
    IN  IF Len(parts) = 1
        THEN [repos |-> IF resp.err = NoErr THEN resp.val ELSE <<>>, err |-> resp.err,
              calls |-> Called(c, "ListByOrg", resp)]
        ELSE IF Len(parts) = 2
             THEN IF resp.err # NoErr
                  THEN [repos |-> <<>>, err |-> resp.err,
                        calls |-> Called(c, "Get", resp)]
                  ELSE [repos |-> <<resp.val>>, err |-> NoErr,
                        calls |-> Called(c, "Get", resp)]
             ELSE [repos |-> <<>>, err |-> [kind |-> "InvalidTarget", src |-> src],
                   calls |-> c]

----------------------------------------------------------------------------
(* Author normalization *)

At == "@"

\* what the client may answer to Users.Get when author() asks it
authorResponses(raw, logins) ==
    IF raw = me THEN {[val |-> l, err |-> NoErr] : l \in logins} \cup Failures
    ELSE {[err |-> NoErr]}

\* author(app), given the call log and the client's answer to Users.Get
authorOf(raw, resp, c) ==
    IF raw = me /\ resp.err # NoErr
    THEN [author |-> <<>>, err |-> resp.err, calls |-> Called(c, "Users.Get", resp)]
    ELSE LET a1 == IF raw = me THEN resp.val ELSE raw
             a2 == IF Len(a1) > 2 /\ a1[1] = At THEN SubSeq(a1, 2, Len(a1)) ELSE a1
             a3 == IF a2 # <<>> THEN ToLower(a2) ELSE a2
         IN  [author |-> a3, err |-> NoErr,
              calls |-> IF raw = me THEN Called(c, "Users.Get", resp) ELSE c]

----------------------------------------------------------------------------
(* usersStats *)

NoStats == <<>>

\* usersStats.get: the user's counters, created on first use
get(s, user) ==
    IF user \in DOMAIN s THEN s
    ELSE [u \in DOMAIN s \cup {user} |->
            IF u = user THEN [Pulls |-> 0, Issues |-> 0, Reviews |-> 0] ELSE s[u]]

\* buggy variant: a review is recorded, not counted
reviewOnce(s, name) == [get(s, name) EXCEPT ![name].Reviews = 1]

\* usersStats.review
review(s, name) == [get(s, name) EXCEPT ![name].Reviews = @ + 1]

\* usersStats.pull
pull(s, name) == [get(s, name) EXCEPT ![name].Pulls = @ + 1]

\* usersStats.issue
issue(s, name) == [get(s, name) EXCEPT ![name].Issues = @ + 1]

\* userStats.sum, doubled: pulls + reviews*0.5 + issues*0.5
sum2(us) == 2 * us.Pulls + us.Reviews + us.Issues

----------------------------------------------------------------------------
(* Sample data *)

Alice == <<"A", "l", "i", "c", "e">>
alice == <<"a", "l", "i", "c", "e">>
bob == <<"b", "o", "b">>
DependabotPreview == dependabot \o <<"-", "p", "r", "e", "v", "i", "e", "w", "[", "b", "o", "t", "]">>

Logins == {Alice, bob, DependabotPreview}
Humans == {Alice, bob}

Tokens == StringsUpTo({"x", "y"}, MaxTokLen)
Homes == {"/root", "/home/u"}
Sources == StringsUpTo({"o", "r", Slash}, MaxSrcLen)
RepoNames == {<<"r">>, <<"s">>}
Listings == StringsUpTo(RepoNames, MaxRepos)
RawAuthors == StringsUpTo({At, "A", "a", "m", "e"}, MaxAuthorLen)

DefaultApp ==
    [cmd |-> "none", src |-> <<"o">>, token |-> <<"x">>, author |-> <<>>,
     period |-> "daily", verbose |-> FALSE, authors |-> FALSE]

DefaultEnv ==
    [GITHUB_TOKEN |-> <<>>, HOME |-> "/root", tokenFile |-> NoFile, now |-> MaxTime]

NoPR == [user |-> <<>>]
NoOutput == [header |-> 0, items |-> 0, placeholder |-> 0, stats |-> {}]

\* the locals of a command before it runs
InitLocals ==
    /\ tkn = <<>>
    /\ err = NoErr
    /\ calls = NoCalls
    /\ out = NoOutput
    /\ repoList = <<>>
    /\ author = <<>>
    /\ ri = 0
    /\ left = 0
    /\ pr = NoPR
    /\ empty = TRUE
    /\ stats = NoStats
    /\ more = 0
    /\ reviewers = {}
    /\ reviewed = {}
    /\ qualified = [u \in Humans |-> 0]
    /\ included = FALSE

----------------------------------------------------------------------------
(* setup: credential resolution over every flag, environment and file *)

InitToken ==
    /\ app \in {[DefaultApp EXCEPT !.token = t] : t \in Tokens}
    /\ env \in {[DefaultEnv EXCEPT !.GITHUB_TOKEN = g, !.HOME = h, !.tokenFile = f] :
                  g \in Tokens, h \in Homes,
                  f \in {NoFile} \cup {[exists |-> TRUE, data |-> d] : d \in Tokens}}
    /\ pc = "setup"
    /\ rng = NoRange
    /\ probe = NoTime
    /\ InitLocals

\* setup(app)
setup ==
    /\ pc = "setup"
    /\ LET r == token(app, env)
       IN  /\ tkn' = r.token
           /\ err' = r.err
           /\ pc' = IF r.err = NoErr THEN "ready" ELSE "done"
    /\ UNCHANGED <<app, env, calls, out, rng, repoList, author, ri, left, pr,
                   more, reviewers, empty, stats, reviewed, qualified,
                   probe, included>>

SpecToken == InitToken /\ [][setup]_vars

----------------------------------------------------------------------------
(* repos: target resolution over every source string *)

InitRepos ==
    /\ app \in {[DefaultApp EXCEPT !.src = s] : s \in Sources}
    /\ env = DefaultEnv
    /\ pc = "repos"
    /\ rng = NoRange
    /\ probe = NoTime
    /\ InitLocals

ReposStep ==
    /\ pc = "repos"
    /\ \E resp \in reposResponses(app.src, Listings) :
          LET r == repos(app.src, resp, calls)
          IN  /\ repoList' = r.repos
              /\ err' = r.err
              /\ calls' = r.calls
    /\ pc' = "done"
    /\ UNCHANGED <<app, env, tkn, out, rng, author, ri, left, pr, more, reviewers,
                   empty, stats, reviewed, qualified, probe, included>>

SpecRepos == InitRepos /\ [][ReposStep]_vars

----------------------------------------------------------------------------
(* author: normalization over every raw --author value *)

InitAuthor ==
    /\ app \in {[DefaultApp EXCEPT !.author = a] : a \in RawAuthors}
    /\ env = DefaultEnv
    /\ pc = "author"
    /\ rng = NoRange
    /\ probe = NoTime
    /\ InitLocals

AuthorStep ==
    /\ pc = "author"
    /\ \E resp \in authorResponses(app.author, Logins) :
          LET r == authorOf(app.author, resp, calls)
          IN  /\ author' = r.author
              /\ err' = r.err
              /\ calls' = r.calls
    /\ pc' = "done"
    /\ UNCHANGED <<app, env, tkn, out, rng, repoList, ri, left, pr, more,
                   reviewers, empty, stats, reviewed, qualified, probe,
                   included>>

SpecAuthor == InitAuthor /\ [][AuthorStep]_vars

----------------------------------------------------------------------------
(* DateRange.Include over every reference instant and every timestamp *)

InitRange ==
    /\ app = DefaultApp
    /\ env = DefaultEnv
    /\ pc = "include"
    /\ rng \in [kind : {"daily", "weekly"}, t : Times]
    /\ probe \in Times \cup {NoTime}
    /\ InitLocals

IncludeStep ==
    /\ pc = "include"
    /\ included' = Include(rng, probe)
    /\ pc' = "done"
    /\ UNCHANGED <<app, env, tkn, err, calls, out, rng, repoList, author, ri,
                   left, pr, more, reviewers, empty, stats, reviewed,
                   qualified, probe>>

SpecRange == InitRange /\ [][IncludeStep]_vars

----------------------------------------------------------------------------
(* usersStats driven directly: any sequence of review, pull and issue *)

InitStats ==
    /\ app = DefaultApp
    /\ env = DefaultEnv
    /\ pc = "stats"
    /\ rng = NoRange
    /\ probe = NoTime
    /\ InitLocals

Below(s, name, field) == IF name \in DOMAIN s THEN s[name][field] < MaxCount ELSE TRUE

StatsUnchanged == UNCHANGED <<app, env, pc, tkn, err, calls, out, rng, repoList, author, ri,
                   left, pr, more, reviewers, empty, reviewed, qualified,
                   probe, included>>

StatsReview ==
    /\ pc = "stats"
    /\ \E name \in Humans : Below(stats, name, "Reviews") /\ stats' = review(stats, name)
    /\ StatsUnchanged

StatsPull ==
    /\ pc = "stats"
    /\ \E name \in Humans : Below(stats, name, "Pulls") /\ stats' = pull(stats, name)
    /\ StatsUnchanged

StatsIssue ==
    /\ pc = "stats"
    /\ \E name \in Humans : Below(stats, name, "Issues") /\ stats' = issue(stats, name)
    /\ StatsUnchanged

SpecStats == InitStats /\ [][StatsReview \/ StatsPull \/ StatsIssue]_vars

----------------------------------------------------------------------------
(* Claims about the pure functions *)

Segments(src) == Cardinality({k \in 1..Len(src) : src[k] = Slash}) + 1

StripAt(s) == IF Len(s) >= 1 /\ s[1] = At THEN SubSeq(s, 2, Len(s)) ELSE s

Counter(s, name, field) == IF name \in DOMAIN s THEN s[name][field] ELSE 0

Fields == {"Pulls", "Issues", "Reviews"}

\* s2 is s with one more in the counter `field` of `name` and nothing else changed
OneMore(s, s2, name, field) ==
    /\ DOMAIN s2 = DOMAIN s \cup {name}
    /\ \A n \in DOMAIN s2 : \A f \in Fields :
          Counter(s2, n, f) = Counter(s, n, f) + (IF n = name /\ f = field THEN 1 ELSE 0)

\* C3: for every raw --author value other than "me", author() returns the raw
\* value with one leading '@' removed if present, then lowercased, and never
\* fails; so "@"+L normalizes like L, also for a one-character L.
C3_AuthorNormalized ==
    (pc = "done" /\ app.author # me) =>
        /\ err = NoErr
        /\ author = ToLower(StripAt(app.author))

\* C4: setup resolves the token to the flag if it is non-empty, else to
\* GITHUB_TOKEN if it is non-empty, else to the contents of the token file; it
\* fails with the missing-credential error naming the file path exactly when
\* all three are absent or empty (an existing empty file included); the
\* environment, the file with it, is left as it was.
C4_TokenResolution ==
    [][pc = "setup" =>
         LET data == IF env.tokenFile.exists THEN env.tokenFile.data ELSE <<>>
             missing == [kind |-> "MissingCredential",
                         file |-> <<env.HOME, TokenFileName>>]
         IN  /\ env' = env
             /\ IF app.token # <<>> THEN tkn' = app.token /\ err' = NoErr
                ELSE IF env.GITHUB_TOKEN # <<>>
                     THEN tkn' = env.GITHUB_TOKEN /\ err' = NoErr
                     ELSE IF data # <<>> THEN tkn' = data /\ err' = NoErr
                          ELSE err' = missing]_vars

\* C5: repos(src) with one segment makes one ListByOrg call and returns just
\* what the client answered (the listing unfiltered, or the error); with two
\* segments it makes one Get call and returns exactly that repository, or the
\* client's error and no repository; with any other number of segments it
\* makes no call and fails with the invalid-target error naming src.
C5_TargetResolution ==
    pc = "done" =>
        IF Segments(app.src) = 1
        THEN /\ calls.n = 1
             /\ calls.last.op = "ListByOrg"
             /\ err = calls.last.resp.err
             /\ err = NoErr => repoList = calls.last.resp.val
        ELSE IF Segments(app.src) = 2
             THEN /\ calls.n = 1
                  /\ calls.last.op = "Get"
                  /\ err = calls.last.resp.err
                  /\ IF err = NoErr THEN repoList = <<calls.last.resp.val>>
                                    ELSE repoList = <<>>
             ELSE /\ calls = NoCalls
                  /\ repoList = <<>>
                  /\ err = [kind |-> "InvalidTarget", src |-> app.src]

C5_Witness ==
    /\ pc = "done"
    /\ Segments(app.src) = 1
    /\ err = NoErr
    /\ Len(repoList) = 2
    /\ repoList[1].name # repoList[2].name

\* C6: WeeklyRange.Include(T) is true exactly when T is not nil and is strictly
\* after the reference minus seven days: the bound itself and nil are left
\* out, and nothing bounds T from above.
C6_WeeklyInclude ==
    (pc = "done" /\ rng.kind = "weekly") =>
        (included <=> (probe # NoTime /\ probe > rng.t - DaysPerWeek * TicksPerDay))

C6_Witness ==
    /\ pc = "done"
    /\ rng.kind = "weekly"
    /\ probe = rng.t - DaysPerWeek * TicksPerDay
    /\ ~included

\* C10 as stated: review, pull and issue are idempotent: applied twice with the
\* same login they leave the map as one application does.
C10_Idempotent ==
    \A name \in Humans :
        /\ review(review(stats, name), name) = review(stats, name)
        /\ pull(pull(stats, name), name) = pull(stats, name)
        /\ issue(issue(stats, name), name) = issue(stats, name)

\* C10 amended: review, pull and issue each add exactly one to their counter
\* of the login (created at zero when the login is new) and change nothing
\* else, so that two applications add two.
C10_CountsEveryEvent ==
    \A name \in Humans :
        /\ OneMore(stats, review(stats, name), name, "Reviews")
        /\ OneMore(stats, pull(stats, name), name, "Pulls")
        /\ OneMore(stats, issue(stats, name), name, "Issues")
        /\ Counter(review(review(stats, name), name), name, "Reviews")
             = Counter(stats, name, "Reviews") + 2

C10_Witness ==
    /\ pc = "stats"
    /\ Counter(stats, Alice, "Reviews") = 2
    /\ Counter(stats, Alice, "Pulls") = 1
    /\ Counter(stats, bob, "Issues") = 1

----------------------------------------------------------------------------
(* The commands: what the command line holds and what the client may answer *)

CmdSources == {<<"o">>, <<"o", Slash, "r">>, <<"o", Slash, "r", Slash, "s">>}
CmdListings == {<<>>, << <<"r">> >>, << <<"r">>, <<"s">> >>}
CmdAuthors == {<<>>, alice, me}
Periods == {"daily", "weekly", "monthly"}

ClosedSamples == {NoTime, MaxTime - TicksPerDay, MaxTime}

\* the open pull requests cmdStat lists
OpenPullRequests ==
    [user : {Alice, DependabotPreview}, draft : BOOLEAN,
     MergedAt : {NoTime}, ClosedAt : {NoTime}]

\* the closed pull requests cmdRep and cmdContribs list
ClosedPullRequests ==
    [user : {Alice, DependabotPreview}, draft : {FALSE},
     MergedAt : {NoTime, MaxTime}, ClosedAt : ClosedSamples]

Reviews ==
    [user : Humans, assoc : {"MEMBER", "CONTRIBUTOR"},
     state : {"APPROVED", "CHANGES_REQUESTED", "COMMENTED", "DISMISSED"}]

Tickets ==
    [user : {Alice},
     assignee : {NoUser} \cup {[present |-> TRUE, login |-> l] : l \in Humans},
     ClosedAt : ClosedSamples]

\* a listing call: the length of the listing (its elements are chosen as the
\* loop reads them), or an error and no listing
listResponses(max) ==
    {[n |-> k, err |-> NoErr] : k \in 0..max}
        \cup {[n |-> 0, err |-> e] : e \in UpstreamErrors}

----------------------------------------------------------------------------
(* The commands: the conditions of their loops *)

\* buggy variant: the error of a listing is dropped
FailedNever(resp) == FALSE

\* if err != nil { return err }
Failed(resp) == resp.err # NoErr

\* PullRequest.GetClosedAt: the zero time for nil
GetClosedAt(p) == IF p.ClosedAt = NoTime THEN ZeroTime ELSE p.ClosedAt

\* cmdStat: the pull requests its loop prints
statKeeps(p, a) ==
    IF HasPrefix(p.user, dependabot) THEN FALSE
    ELSE IF a # <<>> /\ a # ToLower(p.user) THEN FALSE
    ELSE IF p.draft THEN FALSE
    ELSE TRUE

\* buggy variant: pr.MergedAt is not looked at
repKeepsUnmerged(p, r, a) ==
    IF ~Include(r, GetClosedAt(p)) THEN FALSE
    ELSE IF HasPrefix(p.user, dependabot) THEN FALSE
    ELSE IF a # <<>> /\ a # ToLower(p.user) THEN FALSE
    ELSE TRUE

\* cmdRep: the pull requests its loop prints
repKeeps(p, r, a) ==
    IF p.MergedAt = NoTime THEN FALSE
    ELSE IF ~Include(r, GetClosedAt(p)) THEN FALSE
    ELSE IF HasPrefix(p.user, dependabot) THEN FALSE
    ELSE IF a # <<>> /\ a # ToLower(p.user) THEN FALSE
    ELSE TRUE

\* cmdContribs: the pull requests whose reviews it lists
contribKeeps(p, r) ==
    IF ~Include(r, p.ClosedAt) THEN FALSE
    ELSE IF HasPrefix(p.user, dependabot) THEN FALSE
    ELSE TRUE

\* cmdContribs: author == "" || (author != "" && author == user)
counts(a, user) == a = <<>> \/ (a # <<>> /\ a = user)

\* cmdContribs: verbose && author == "" || (author != "" && author == user)
shows(verbose, a, user) == (verbose /\ a = <<>>) \/ (a # <<>> /\ a = user)

\* buggy variant: the author association is not looked at
reviewCountsAnyone(r) ==
    IF r.state # "CHANGES_REQUESTED" /\ r.state # "APPROVED" THEN FALSE
    ELSE TRUE

\* cmdContribs: a review that enters the reviewers map
reviewCounts(r) ==
    IF r.assoc # "MEMBER" THEN FALSE
    ELSE IF r.state # "CHANGES_REQUESTED" /\ r.state # "APPROVED" THEN FALSE
    ELSE TRUE

\* cmdContribs: the loop over the reviewers map
RECURSIVE countReviews(_, _, _)
countReviews(s, rs, a) ==
    IF rs = {} THEN s
    ELSE LET r == CHOOSE x \in rs : TRUE
         IN  countReviews(IF counts(a, r) THEN review(s, r) ELSE s, rs \ {r}, a)

\* cmdContribs: an issue the loop passes over
ticketSkipped(t, r) ==
    IF ~Include(r, t.ClosedAt) THEN TRUE
    ELSE IF ~t.assignee.present THEN TRUE
    ELSE t.assignee.login = t.user

\* cmdContribs: one line per user of the map, in no fixed order
statsLines(s) ==
    {[name |-> n, Pulls |-> s[n].Pulls, Reviews |-> s[n].Reviews,
      Issues |-> s[n].Issues, sum2 |-> sum2(s[n])] : n \in DOMAIN s}

\* history: r is a review by a member that approves or requests changes
Qualifying(r) == r.assoc = "MEMBER" /\ r.state \in {"CHANGES_REQUESTED", "APPROVED"}

\* history: p is closed within the range and not of dependabot
InReport(p, r) == Include(r, p.ClosedAt) /\ ~HasPrefix(p.user, dependabot)

----------------------------------------------------------------------------
(* The commands: one action per client call, and one per element a loop reads *)

Init ==
    /\ app \in {a \in [cmd : {"status", "report", "contrib"}, src : CmdSources,
                       token : {<<"x">>}, author : CmdAuthors, period : Periods,
                       verbose : BOOLEAN, authors : BOOLEAN] :
                  /\ a.cmd = "status" => a.period = "daily"
                  /\ a.cmd # "contrib" => ~a.verbose
                  /\ a.cmd # "report" => ~a.authors}
    /\ env = DefaultEnv
    /\ pc = "start"
    /\ rng = NoRange
    /\ probe = NoTime
    /\ InitLocals

\* what no command writes
fixed == <<app, env, tkn, probe, included>>

\* the current pull request is done: on to the next one, or to the next repository
Consumed ==
    /\ left' = left - 1
    /\ IF left = 1 THEN ri' = ri + 1 /\ pc' = "list" ELSE ri' = ri /\ pc' = "pr"

\* repos(app.Args().First()) and the return on its error
Resolve ==
    \E resp \in reposResponses(app.src, CmdListings) :
        LET r == repos(app.src, resp, calls)
        IN  /\ calls' = r.calls
            /\ repoList' = r.repos
            /\ err' = r.err
            /\ pc' = IF r.err # NoErr THEN "done" ELSE "author"

cmdStatBegin ==
    /\ pc = "start"
    /\ app.cmd = "status"
    /\ out' = [out EXCEPT !.header = 1]
    /\ Resolve
    /\ UNCHANGED <<fixed, rng, author, ri, left, pr, more, reviewers, empty, stats,
                   reviewed, qualified>>

cmdRepBegin ==
    /\ pc = "start"
    /\ app.cmd = "report"
    /\ LET parsed == ParseRange(app.period, env.now)
       IN  IF parsed.err # NoErr
           THEN /\ err' = parsed.err
                /\ pc' = "done"
                /\ UNCHANGED <<rng, calls, repoList>>
           ELSE /\ rng' = parsed.range
                /\ Resolve
    /\ UNCHANGED <<fixed, out, author, ri, left, pr, more, reviewers, empty, stats,
                   reviewed, qualified>>

cmdContribsBegin ==
    /\ pc = "start"
    /\ app.cmd = "contrib"
    /\ LET parsed == ParseRange(app.period, env.now)
       IN  IF parsed.err # NoErr
           THEN /\ err' = parsed.err
                /\ pc' = "done"
                /\ UNCHANGED <<rng, calls, repoList, out>>
           ELSE /\ rng' = parsed.range
                /\ out' = [out EXCEPT !.header = 1]
                /\ Resolve
    /\ UNCHANGED <<fixed, author, ri, left, pr, more, reviewers, empty, stats,
                   reviewed, qualified>>

\* author(app) and the return on its error, the same in the three commands
cmdAuthor ==
    /\ pc = "author"
    /\ \E resp \in authorResponses(app.author, {bob}) :
          LET r == authorOf(app.author, resp, calls)
          IN  /\ author' = r.author
              /\ calls' = r.calls
              /\ err' = r.err
              /\ IF r.err # NoErr THEN pc' = "done" /\ ri' = ri
                                  ELSE pc' = "list" /\ ri' = 1
    /\ UNCHANGED <<fixed, out, rng, repoList, left, pr, more, reviewers, empty, stats,
                   reviewed, qualified>>

\* client.PullRequests.List for the next repository, the same in the three commands
listPulls ==
    /\ pc = "list"
    /\ ri <= Len(repoList)
    /\ \E resp \in listResponses(MaxPRs) :
          /\ calls' = CalledList(calls, "PullRequests.List", resp)
          /\ IF Failed(resp)
             THEN /\ err' = resp.err
                  /\ pc' = "done"
                  /\ UNCHANGED <<ri, left>>
             ELSE /\ err' = err
                  /\ left' = resp.n
                  /\ IF resp.n = 0 THEN ri' = ri + 1 /\ pc' = "list"
                                   ELSE ri' = ri /\ pc' = "pr"
    /\ UNCHANGED <<fixed, out, rng, repoList, author, pr, more, reviewers, empty, stats,
                   reviewed, qualified>>

\* cmdStat: the loop body up to client.PullRequests.ListReviews
cmdStatPR ==
    /\ pc = "pr"
    /\ app.cmd = "status"
    /\ \E p \in OpenPullRequests :
          /\ pr' = p
          /\ IF statKeeps(p, author) THEN pc' = "reviews" /\ UNCHANGED <<ri, left>>
                                     ELSE Consumed
    /\ UNCHANGED <<fixed, err, calls, out, rng, repoList, author, more, reviewers,
                   empty, stats, reviewed, qualified>>

\* cmdStat: client.PullRequests.ListReviews and the line of the pull request,
\* of which the reviews shape only the text
cmdStatReviews ==
    /\ pc = "reviews"
    /\ app.cmd = "status"
    /\ \E resp \in listResponses(MaxRevs) :
          /\ calls' = CalledList(calls, "PullRequests.ListReviews", resp)
          /\ IF Failed(resp)
             THEN /\ err' = resp.err
                  /\ pc' = "done"
                  /\ UNCHANGED <<out, empty, ri, left>>
             ELSE /\ err' = err
                  /\ out' = [out EXCEPT !.items = @ + 1]
                  /\ empty' = FALSE
                  /\ Consumed
    /\ UNCHANGED <<fixed, rng, repoList, author, pr, more, reviewers, stats, reviewed,
                   qualified>>

\* cmdRep: the loop body
cmdRepPR ==
    /\ pc = "pr"
    /\ app.cmd = "report"
    /\ \E p \in ClosedPullRequests :
          /\ pr' = p
          /\ IF repKeeps(p, rng, author)
             THEN out' = [out EXCEPT !.items = @ + 1] /\ empty' = FALSE
             ELSE UNCHANGED <<out, empty>>
    /\ Consumed
    /\ UNCHANGED <<fixed, err, calls, rng, repoList, author, more, reviewers, stats,
                   reviewed, qualified>>

\* cmdStat, cmdRep: the line printed when nothing was
cmdEnd ==
    /\ pc = "list"
    /\ ri > Len(repoList)
    /\ app.cmd \in {"status", "report"}
    /\ out' = IF empty THEN [out EXCEPT !.placeholder = @ + 1] ELSE out
    /\ pc' = "done"
    /\ UNCHANGED <<fixed, err, calls, rng, repoList, author, ri, left, pr, more,
                   reviewers, empty, stats, reviewed, qualified>>

\* cmdContribs: the loop body up to client.PullRequests.ListReviews
cmdContribsPR ==
    /\ pc = "pr"
    /\ app.cmd = "contrib"
    /\ \E p \in ClosedPullRequests :
          IF contribKeeps(p, rng)
          THEN pr' = p /\ pc' = "reviews" /\ UNCHANGED <<ri, left>>
          ELSE pr' = NoPR /\ Consumed
    /\ UNCHANGED <<fixed, err, calls, out, rng, repoList, author, more, reviewers,
                   empty, stats, reviewed, qualified>>

\* cmdContribs: after the reviews of the current pull request, the loop over
\* the reviewers map (rs) and the merge of the pull request; `lines` are the
\* "review by" lines of this step and seen the history of its reviews
contribsMerge(rs, lines, seen) ==
    LET s1 == countReviews(stats, rs, author)
        merged == pr.MergedAt # NoTime
    IN  /\ stats' = IF merged /\ counts(author, pr.user) THEN pull(s1, pr.user) ELSE s1
        /\ out' = [out EXCEPT !.items = @ + lines
                      + (IF merged /\ shows(app.verbose, author, pr.user) THEN 1 ELSE 0)]
        /\ qualified' = [u \in Humans |->
              qualified[u] + (IF u \in seen /\ InReport(pr, rng) THEN 1 ELSE 0)]
        /\ reviewers' = {}
        /\ reviewed' = {}
        /\ pr' = NoPR
        /\ more' = 0
        /\ Consumed

\* cmdContribs: client.PullRequests.ListReviews
cmdContribsReviews ==
    /\ pc = "reviews"
    /\ app.cmd = "contrib"
    /\ \E resp \in listResponses(MaxRevs) :
          /\ calls' = CalledList(calls, "PullRequests.ListReviews", resp)
          /\ IF Failed(resp)
             THEN /\ err' = resp.err
                  /\ pc' = "done"
                  /\ UNCHANGED <<out, stats, qualified, ri, left, pr, more, reviewers,
                                 reviewed>>
             ELSE /\ err' = err
                  /\ IF resp.n = 0
                     THEN contribsMerge({}, 0, {})
                     ELSE /\ more' = resp.n
                          /\ pc' = "review"
                          /\ UNCHANGED <<out, stats, qualified, ri, left, pr, reviewers,
                                         reviewed>>
    /\ UNCHANGED <<fixed, rng, repoList, author, empty>>

\* cmdContribs: the loop over the reviews reads one review
cmdContribsReview ==
    /\ pc = "review"
    /\ \E r \in Reviews :
          LET rs == IF reviewCounts(r) THEN reviewers \cup {r.user} ELSE reviewers
              seen == IF Qualifying(r) THEN reviewed \cup {r.user} ELSE reviewed
              lines == IF reviewCounts(r) /\ shows(app.verbose, author, r.user)
                       THEN 1 ELSE 0
          IN  IF more = 1
              THEN contribsMerge(rs, lines, seen)
              ELSE /\ reviewers' = rs
                   /\ reviewed' = seen
                   /\ out' = [out EXCEPT !.items = @ + lines]
                   /\ more' = more - 1
                   /\ UNCHANGED <<pc, stats, qualified, ri, left, pr>>
    /\ UNCHANGED <<fixed, err, calls, rng, repoList, author, empty>>

\* cmdContribs: after the issues, the statistics are printed
contribsPrint(s, lines) ==
    /\ stats' = s
    /\ out' = [out EXCEPT !.items = @ + lines, !.stats = statsLines(s)]
    /\ more' = 0
    /\ pc' = "done"

\* cmdContribs: client.Issues.ListByOrg
cmdContribsTickets ==
    /\ pc = "list"
    /\ ri > Len(repoList)
    /\ app.cmd = "contrib"
    /\ \E resp \in listResponses(MaxTickets) :
          /\ calls' = CalledList(calls, "Issues.ListByOrg", resp)
          /\ IF Failed(resp)
             THEN /\ err' = resp.err
                  /\ pc' = "done"
                  /\ UNCHANGED <<out, stats, more>>
             ELSE /\ err' = err
                  /\ IF resp.n = 0
                     THEN contribsPrint(stats, 0)
                     ELSE /\ more' = resp.n
                          /\ pc' = "ticket"
                          /\ UNCHANGED <<out, stats>>
    /\ UNCHANGED <<fixed, rng, repoList, author, ri, left, pr, reviewers, empty,
                   reviewed, qualified>>

\* cmdContribs: the loop over the issues reads one issue
cmdContribsTicket ==
    /\ pc = "ticket"
    /\ \E t \in Tickets :
          LET skip == ticketSkipped(t, rng)
              s1 == IF ~skip /\ counts(author, t.user) THEN issue(stats, t.user)
                    ELSE stats
              lines == IF ~skip /\ shows(app.verbose, author, t.user) THEN 1 ELSE 0
          IN  IF more = 1
              THEN contribsPrint(s1, lines)
              ELSE /\ stats' = s1
                   /\ out' = [out EXCEPT !.items = @ + lines]
                   /\ more' = more - 1
                   /\ pc' = pc
    /\ UNCHANGED <<fixed, err, calls, rng, repoList, author, ri, left, pr, reviewers,
                   empty, reviewed, qualified>>

Next ==
    \/ cmdStatBegin
    \/ cmdRepBegin
    \/ cmdContribsBegin
    \/ cmdAuthor
    \/ listPulls
    \/ cmdStatPR
    \/ cmdStatReviews
    \/ cmdRepPR
    \/ cmdEnd
    \/ cmdContribsPR
    \/ cmdContribsReviews
    \/ cmdContribsReview
    \/ cmdContribsTickets
    \/ cmdContribsTicket

Spec == Init /\ [][Next]_vars

----------------------------------------------------------------------------
(* Claims about the commands *)

\* the filter a matches the login: a is empty, or the two are equal but for case
Matches(a, login) == a = <<>> \/ ToLower(a) = ToLower(login)

\* the last client call failed
CallFailed(c) == c.n > 0 /\ c.last.resp.err # NoErr

\* C1: cmdRep prints a closed pull request exactly when it was merged, its
\* close timestamp is in the range, its author's login does not start with
\* "dependabot", and the author filter is empty or equals the lowercased
\* login; it prints it once.
C1_ReportPrints ==
    [][(pc = "pr" /\ app.cmd = "report") =>
         LET p == pr'
         IN  /\ out'.items \in {out.items, out.items + 1}
             /\ out'.items = out.items + 1 <=>
                  /\ p.MergedAt # NoTime
                  /\ p.ClosedAt # NoTime
                  /\ Include(rng, p.ClosedAt)
                  /\ ~HasPrefix(p.user, dependabot)
                  /\ (author = <<>> \/ author = ToLower(p.user))]_vars

C1_Witness ==
    /\ app.cmd = "report"
    /\ author = alice
    /\ out.items = 1
    /\ pr.user = Alice
    /\ pr.MergedAt = NoTime
    /\ pr.ClosedAt = MaxTime

\* C2: in every command the author filter matches a login exactly when the two
\* are equal but for case (an empty filter matches all): status and report
\* keep a pull request that passes their other conditions exactly then, and
\* contrib counts the merged pull request of a login exactly then.
C2_AuthorCaseInsensitive ==
    [][/\ (pc = "pr" /\ app.cmd = "status") =>
            (pc' = "reviews" <=>
                /\ ~HasPrefix(pr'.user, dependabot)
                /\ ~pr'.draft
                /\ Matches(author, pr'.user))
       /\ (pc = "pr" /\ app.cmd = "report") =>
            (out'.items = out.items + 1 <=>
                /\ pr'.MergedAt # NoTime
                /\ Include(rng, GetClosedAt(pr'))
                /\ ~HasPrefix(pr'.user, dependabot)
                /\ Matches(author, pr'.user))
       /\ (app.cmd = "contrib" /\ pr # NoPR /\ pr' = NoPR) =>
            Counter(stats', pr.user, "Pulls") =
                Counter(stats, pr.user, "Pulls")
                  + (IF pr.MergedAt # NoTime /\ Matches(author, pr.user) THEN 1 ELSE 0)]_vars

\* C7: with no author filter, a user's Reviews counter in contrib is the number
\* of pull requests, closed in the range and not of dependabot, on which the
\* user has at least one review as MEMBER that is CHANGES_REQUESTED or
\* APPROVED: several such reviews on one pull request add one, other reviews
\* add nothing.
C7_ReviewsOncePerPull ==
    (app.cmd = "contrib" /\ author = <<>>) =>
        \A u \in Humans : Counter(stats, u, "Reviews") = qualified[u]

C7_Witness ==
    /\ app.cmd = "contrib"
    /\ author = <<>>
    /\ pc = "done"
    /\ err = NoErr
    /\ Counter(stats, Alice, "Reviews") = 2
    /\ Counter(stats, bob, "Reviews") = 1

\* C8: a command that ends without error has printed exactly one placeholder
\* line if it printed no line for an item, and no placeholder line otherwise.
C8_PlaceholderWhenEmpty ==
    (pc = "done" /\ err = NoErr) =>
        IF out.items + Cardinality(out.stats) = 0
        THEN out.placeholder = 1
        ELSE out.placeholder = 0

\* C9: the first error of a client call ends the command with that error: the
\* step of the failing call returns it and prints no item, no placeholder and
\* no statistics, and no step follows it, so no call and no line does.
C9_FirstErrorEnds ==
    [][/\ ~CallFailed(calls)
       /\ CallFailed(calls') =>
            /\ calls'.n = calls.n + 1
            /\ pc' = "done"
            /\ err' = calls'.last.resp.err
            /\ out'.items = out.items
            /\ out'.placeholder = 0
            /\ out'.stats = {}]_vars

C9_Witness ==
    /\ pc = "done"
    /\ err \in UpstreamErrors
    /\ CallFailed(calls)
    /\ calls.last.op = "PullRequests.ListReviews"
    /\ out.items > 0

====
